---- MODULE Spec2Model ----
(***************************************************************************)
(* Model of the DS3502 digital potentiometer driver (src/src/lib.rs).      *)
(*                                                                         *)
(* Two driver instances are modelled side by side, as in test::test_both:  *)
(* a blocking one (impl<I2C: I2c>) and an async one (impl<I2C: AsyncI2c>), *)
(* each owning its own bus transport.  The blocking handlers run to        *)
(* completion in one step; the async handlers take one step per await.     *)
(* The async driver is driven with the same calls, and its transport is    *)
(* scripted to fail at the same write positions, as the blocking one.      *)
(***************************************************************************)
EXTENDS Integers, Sequences, FiniteSets, TLC

\* Number of write_wiper / write_and_save_wiper calls made after init.
MaxCalls == 2

\* Raw u8 values the caller hands to Wiper::try_from in the driver runs.
RawInputs == {0, 127, 128, 255}

\* The whole u8 range, used where Wiper::try_from is checked on its own.
U8 == 0 .. 255

Kinds == {"blocking", "async"}

VARIABLES
    cfg,        \* the Config handed to blocking_init and async_init
    pot,        \* pot[k]: <<>> or <<[config |-> Config]>>, the Ds3502 returned by init
    i2c,        \* i2c[k]: the transactions the transport of driver k has completed
    inflight,   \* transactions issued by the async driver and not yet completed
    pc,         \* the await point the async task is suspended at, or "idle"
    frame,      \* locals of the async call in progress
    wv,         \* <<>> or <<[raw, res]>>: the caller's last Wiper::try_from(raw) = res
    calls,      \* the calls made on the blocking driver, with their failure scripts
    replayed,   \* how many of these calls the async driver has completed
    ret         \* ret[k]: <<>> or <<r>>, r the record of the last call returned by k

vars == <<cfg, pot, i2c, inflight, pc, frame, wv, calls, replayed, ret>>

(***************************************************************************)
(* Value types                                                             *)
(***************************************************************************)

I2cAddr == {"Default", "Address0", "Address1", "Address01"}

\* `addr as u8` for the #[repr(u8)] enum I2cAddr
I2cAddr_as_u8(a) ==
    CASE a = "Default"   -> 40     \* 0x28
      [] a = "Address0"  -> 41     \* 0x29
      [] a = "Address1"  -> 42     \* 0x2a
      [] a = "Address01" -> 43     \* 0x2b

ControlRegisterMode == {"WiperAndInitialValue", "WiperOnly"}

\* Variant of the mode encoding with the WiperOnly bit misplaced (0x08).
ControlRegisterMode_as_u8_low_bit(m) ==
    CASE m = "WiperAndInitialValue" -> 0
      [] m = "WiperOnly"            -> 8

\* `mode as u8` for the #[repr(u8)] enum ControlRegisterMode
ControlRegisterMode_as_u8(m) ==
    CASE m = "WiperAndInitialValue" -> 0      \* 0x00
      [] m = "WiperOnly"            -> 128    \* 0x80

Config == [i2c_addr : I2cAddr, mode : ControlRegisterMode]

Config_default == [i2c_addr |-> "Default", mode |-> "WiperOnly"]

\* Variant of Wiper::try_from with the bound off by one (accepts 128).
Wiper_try_from_off_by_one(value) ==
    IF value > 128
    THEN [tag |-> "Err", err |-> "InvalidWiperValue"]
    ELSE [tag |-> "Ok", wiper |-> value]

\* Variant of Wiper::try_from that clamps instead of rejecting.
Wiper_try_from_clamp(value) ==
    [tag |-> "Ok", wiper |-> IF value > 127 THEN 127 ELSE value]

\* impl TryFrom<u8> for Wiper
Wiper_try_from(value) ==
    IF value > 127
    THEN [tag |-> "Err", err |-> "InvalidWiperValue"]
    ELSE [tag |-> "Ok", wiper |-> value]

\* Wiper::inner
Wiper_inner(w) == w

\* impl<E: I2cError> From<E> for Ds3502Error, applied by `?` to a failed write
Ds3502Error_from(ok) == IF ok THEN "Ok" ELSE "I2cError"

(***************************************************************************)
(* The bus transport (collaborator): a write is recorded with its outcome. *)
(***************************************************************************)

\* A transaction handed to the transport: the driver only ever calls I2c::write.
Txn(addr, bytes) == [op |-> "write", addr |-> addr, bytes |-> bytes]

\* I2c::write(addr, bytes) returning Ok (ok) or Err: the transport's record of it
I2c_write(bus, addr, bytes, ok) ==
    Append(bus, [op |-> "write", addr |-> addr, bytes |-> bytes, ok |-> ok])

(***************************************************************************)
(* Blocking driver: impl<I2C: I2c> Ds3502<I2C>.  self = [i2c, config];     *)
(* each method returns the new self and its result.  The script failAt     *)
(* names which bus write of the call fails (0: none).                      *)
(***************************************************************************)

\* Ds3502::new
Ds3502_new(bus, config) == [i2c |-> bus, config |-> config]

\* Variant of mode that reports the default mode instead of the recorded one.
mode_default(self) == Config_default.mode

\* Ds3502::mode
mode(self) == self.config.mode

\* Variant of set_mode that records the mode only once the write has succeeded.
set_mode_commit_on_success(self, m, ok) ==
    LET s1 == [self EXCEPT !.i2c = I2c_write(self.i2c, I2cAddr_as_u8(self.config.i2c_addr),
                                              <<2, ControlRegisterMode_as_u8(m)>>, ok)]
        s2 == IF ok THEN [s1 EXCEPT !.config.mode = m] ELSE s1
    IN  [self |-> s2, res |-> Ds3502Error_from(ok)]

\* Ds3502::set_mode
set_mode(self, m, ok) ==
    LET s1 == [self EXCEPT !.config.mode = m]
        s2 == [s1 EXCEPT !.i2c = I2c_write(s1.i2c, I2cAddr_as_u8(s1.config.i2c_addr),
                                            <<2, ControlRegisterMode_as_u8(m)>>, ok)]
    IN  [self |-> s2, res |-> Ds3502Error_from(ok)]

\* Variant of write_wiper that also records the default mode, as set_mode would.
write_wiper_sets_mode(self, value, ok) ==
    LET s0 == [self EXCEPT !.config.mode = "WiperOnly"]
        s1 == [s0 EXCEPT !.i2c = I2c_write(s0.i2c, I2cAddr_as_u8(s0.config.i2c_addr),
                                            <<0, value>>, ok)]
    IN  [self |-> s1, res |-> Ds3502Error_from(ok)]

\* Variant of write_wiper that tries the write a second time when it fails.
write_wiper_retry(self, value, ok) ==
    LET a  == I2cAddr_as_u8(self.config.i2c_addr)
        s1 == [self EXCEPT !.i2c = I2c_write(self.i2c, a, <<0, value>>, ok)]
        s2 == IF ok THEN s1 ELSE [s1 EXCEPT !.i2c = I2c_write(s1.i2c, a, <<0, value>>, ok)]
    IN  [self |-> s2, res |-> Ds3502Error_from(ok)]

\* Ds3502::write_wiper
write_wiper(self, value, ok) ==
    LET s1 == [self EXCEPT !.i2c = I2c_write(self.i2c, I2cAddr_as_u8(self.config.i2c_addr),
                                              <<0, value>>, ok)]
    IN  [self |-> s1, res |-> Ds3502Error_from(ok)]

\* Variant of write_and_save_wiper that records WiperOnly again without writing it.
write_and_save_wiper_silent_restore(self, value, failAt) ==
    LET r1 == set_mode(self, "WiperAndInitialValue", failAt # 1)
        r2 == write_wiper(r1.self, value, failAt # 2)
        r3 == [self |-> [r2.self EXCEPT !.config.mode = "WiperOnly"], res |-> "Ok"]
    IN  IF r1.res # "Ok" THEN r1
        ELSE IF r2.res # "Ok" THEN r2
        ELSE r3

\* Variant of write_and_save_wiper that sets the mode back before writing the wiper.
write_and_save_wiper_restore_early(self, value, failAt) ==
    LET r1 == set_mode(self, "WiperAndInitialValue", failAt # 1)
        r2 == set_mode(r1.self, "WiperOnly", failAt # 2)
        r3 == write_wiper(r2.self, value, failAt # 3)
    IN  IF r1.res # "Ok" THEN r1
        ELSE IF r2.res # "Ok" THEN r2
        ELSE r3

\* Variant of write_and_save_wiper that does not stop when the wiper write fails.
write_and_save_wiper_no_stop(self, value, failAt) ==
    LET r1 == set_mode(self, "WiperAndInitialValue", failAt # 1)
        r2 == write_wiper(r1.self, value, failAt # 2)
        r3 == set_mode(r2.self, "WiperOnly", failAt # 3)
    IN  IF r1.res # "Ok" THEN r1
        ELSE r3

\* Ds3502::write_and_save_wiper
write_and_save_wiper(self, value, failAt) ==
    LET r1 == set_mode(self, "WiperAndInitialValue", failAt # 1)
        r2 == write_wiper(r1.self, value, failAt # 2)
        r3 == set_mode(r2.self, "WiperOnly", failAt # 3)
    IN  IF r1.res # "Ok" THEN r1
        ELSE IF r2.res # "Ok" THEN r2
        ELSE r3

\* Variant of blocking_init that returns the driver whatever the write's result.
blocking_init_ignore_error(bus, config, failAt) ==
    LET r == set_mode(Ds3502_new(bus, config), config.mode, failAt # 1)
    IN  [i2c |-> r.self.i2c, pot |-> <<[config |-> r.self.config]>>, res |-> r.res]

\* Variant of blocking_init that always sets the default mode.
blocking_init_default_mode(bus, config, failAt) ==
    LET r == set_mode(Ds3502_new(bus, config), "WiperOnly", failAt # 1)
    IN  [i2c |-> r.self.i2c,
         pot |-> IF r.res = "Ok" THEN <<[config |-> r.self.config]>> ELSE <<>>,
         res |-> r.res]

\* Ds3502::blocking_init; pot is <<>> when Err is returned
blocking_init(bus, config, failAt) ==
    LET r == set_mode(Ds3502_new(bus, config), config.mode, failAt # 1)
    IN  [i2c |-> r.self.i2c,
         pot |-> IF r.res = "Ok" THEN <<[config |-> r.self.config]>> ELSE <<>>,
         res |-> r.res]

(***************************************************************************)
(* Async driver: impl<I2C: AsyncI2c> Ds3502<I2C>.  Each method issues its  *)
(* bus write and suspends; the transaction it hands to the transport:      *)
(***************************************************************************)

\* Ds3502::async_set_mode: the write it awaits (self.config is not assigned)
async_set_mode(config, m) ==
    Txn(I2cAddr_as_u8(config.i2c_addr), <<2, ControlRegisterMode_as_u8(m)>>)

\* Variant of async_write_wiper that sends the position before the register byte.
async_write_wiper_swapped(config, value) ==
    Txn(I2cAddr_as_u8(config.i2c_addr), <<value, 0>>)

\* Ds3502::async_write_wiper: the write it awaits
async_write_wiper(config, value) ==
    Txn(I2cAddr_as_u8(config.i2c_addr), <<0, value>>)

(***************************************************************************)
(* State machine                                                           *)
(***************************************************************************)

Init ==
    /\ cfg \in Config
    /\ pot = [blocking |-> <<>>, async |-> <<>>]
    /\ i2c = [blocking |-> <<>>, async |-> <<>>]
    /\ inflight = <<>>
    /\ pc = "idle"
    /\ frame = <<>>
    /\ wv = <<>>
    /\ calls = <<>>
    /\ replayed = 0
    /\ ret = [blocking |-> <<>>, async |-> <<>>]

\* The record of a returned call: the transport's log grew from `from` to `to`.
Returned(op, args, failAt, from, to, mode0, res) ==
    [op |-> op, args |-> args, failAt |-> failAt, from |-> from, to |-> to,
     mode0 |-> mode0, res |-> res]

\* let wv = Wiper::try_from(v)
TryFrom(v) ==
    /\ wv' = <<[raw |-> v, res |-> Wiper_try_from(v)]>>
    /\ UNCHANGED <<cfg, pot, i2c, inflight, pc, frame, calls, replayed, ret>>

\* Ds3502::blocking_init(i2c, cfg)
BlockingInit(failAt) ==
    /\ calls = <<>>
    /\ LET r == blocking_init(i2c.blocking, cfg, failAt)
       IN  /\ i2c' = [i2c EXCEPT !.blocking = r.i2c]
           /\ pot' = [pot EXCEPT !.blocking = r.pot]
           /\ ret' = [ret EXCEPT !.blocking =
                        <<Returned("init", <<>>, failAt, Len(i2c.blocking), Len(r.i2c),
                                   <<>>, r.res)>>]
    /\ calls' = <<[op |-> "init", args |-> <<>>, failAt |-> failAt]>>
    /\ UNCHANGED <<cfg, inflight, pc, frame, wv, replayed>>

\* A method call on the blocking driver with the caller's Wiper
BlockingCall(op, r, failAt) ==
    /\ i2c' = [i2c EXCEPT !.blocking = r.self.i2c]
    /\ pot' = [pot EXCEPT !.blocking = <<[config |-> r.self.config]>>]
    /\ ret' = [ret EXCEPT !.blocking =
                 <<Returned(op, <<wv[1].res.wiper>>, failAt, Len(i2c.blocking),
                            Len(r.self.i2c), <<pot.blocking[1].config.mode>>, r.res)>>]
    /\ calls' = Append(calls, [op |-> op, args |-> <<wv[1].res.wiper>>, failAt |-> failAt])
    /\ UNCHANGED <<cfg, inflight, pc, frame, wv, replayed>>

CanCall ==
    /\ pot.blocking # <<>>
    /\ Len(calls) < 1 + MaxCalls
    /\ wv # <<>>
    /\ wv[1].res.tag = "Ok"

\* digipot.write_wiper(wv)
WriteWiper(failAt) ==
    /\ CanCall
    /\ BlockingCall("write_wiper",
                    write_wiper(Ds3502_new(i2c.blocking, pot.blocking[1].config),
                                Wiper_inner(wv[1].res.wiper), failAt # 1),
                    failAt)

\* digipot.write_and_save_wiper(wv)
WriteAndSaveWiper(failAt) ==
    /\ CanCall
    /\ BlockingCall("write_and_save_wiper",
                    write_and_save_wiper(Ds3502_new(i2c.blocking, pot.blocking[1].config),
                                         Wiper_inner(wv[1].res.wiper), failAt),
                    failAt)

(***************************************************************************)
(* Async task: the same calls, replayed on the async driver.               *)
(***************************************************************************)

\* The call the async task makes next, with the script of its transport.
NextCall == calls[replayed + 1]

\* An async method is called: its locals, and the first write it awaits.
AsyncEnter(at, local, mode0, txn) ==
    /\ frame' = <<[op |-> NextCall.op, args |-> NextCall.args,
                   failAt |-> NextCall.failAt, from |-> Len(i2c.async),
                   mode0 |-> mode0, local |-> local]>>
    /\ inflight' = Append(inflight, txn)
    /\ pc' = at
    /\ UNCHANGED <<cfg, pot, i2c, wv, calls, replayed, ret>>

\* The transport completes the write in flight, with the scripted outcome.
Complete(ok) ==
    i2c' = [i2c EXCEPT !.async = I2c_write(@, Head(inflight).addr, Head(inflight).bytes, ok)]

\* The async method returns res to its caller.
AsyncReturn(res) ==
    /\ pc' = "idle"
    /\ frame' = <<>>
    /\ replayed' = replayed + 1
    /\ ret' = [ret EXCEPT !.async =
                 <<Returned(frame[1].op, frame[1].args, frame[1].failAt, frame[1].from,
                            Len(i2c'.async), frame[1].mode0, res)>>]

\* Variant of AsyncAwait that issues the next write beside the one just polled.
AsyncAwait_unawaited(at, txn) ==
    /\ pc' = at
    /\ inflight' = Append(inflight, txn)
    /\ UNCHANGED <<frame, replayed, ret, pot>>

\* The async method goes on to its next await.
AsyncAwait(at, txn) ==
    /\ pc' = at
    /\ inflight' = Append(Tail(inflight), txn)
    /\ UNCHANGED <<frame, replayed, ret, pot>>

\* Ds3502::async_init(i2c, cfg), up to the await of async_set_mode
AsyncInit ==
    /\ pc = "idle"
    /\ replayed = 0
    /\ calls # <<>>
    /\ AsyncEnter("init_await", <<[config |-> Ds3502_new(<<>>, cfg).config]>>, <<>>,
                  async_set_mode(cfg, cfg.mode))

\* async_init resumes: `?` on the write's result, then Ok(pot)
AsyncInitResume ==
    /\ pc = "init_await"
    /\ LET ok == frame[1].failAt # 1
       IN  /\ Complete(ok)
           /\ inflight' = Tail(inflight)
           /\ pot' = [pot EXCEPT !.async = IF ok THEN frame[1].local ELSE <<>>]
           /\ AsyncReturn(Ds3502Error_from(ok))
    /\ UNCHANGED <<cfg, wv, calls>>

AsyncCanCall(op) ==
    /\ pc = "idle"
    /\ pot.async # <<>>
    /\ replayed < Len(calls)
    /\ NextCall.op = op

\* digipot.async_write_wiper(wv), up to its await
AsyncWriteWiper ==
    /\ AsyncCanCall("write_wiper")
    /\ AsyncEnter("ww_await", <<>>, <<mode(pot.async[1])>>,
                  async_write_wiper(pot.async[1].config, Wiper_inner(NextCall.args[1])))

\* async_write_wiper resumes: `?` on the write's result, then Ok(())
AsyncWriteWiperResume ==
    /\ pc = "ww_await"
    /\ LET ok == frame[1].failAt # 1
       IN  /\ Complete(ok)
           /\ inflight' = Tail(inflight)
           /\ AsyncReturn(Ds3502Error_from(ok))
    /\ UNCHANGED <<cfg, pot, wv, calls>>

\* digipot.async_write_and_save_wiper(wv), up to the first await
AsyncWriteAndSaveWiper ==
    /\ AsyncCanCall("write_and_save_wiper")
    /\ AsyncEnter("ws_await1", <<>>, <<mode(pot.async[1])>>,
                  async_set_mode(pot.async[1].config, "WiperAndInitialValue"))

\* async_write_and_save_wiper resumes from async_set_mode(WiperAndInitialValue)
AsyncWriteAndSaveResume1 ==
    /\ pc = "ws_await1"
    /\ LET ok == frame[1].failAt # 1
       IN  /\ Complete(ok)
           /\ IF ok
              THEN AsyncAwait("ws_await2",
                              async_write_wiper(pot.async[1].config,
                                                Wiper_inner(frame[1].args[1])))
              ELSE /\ inflight' = Tail(inflight)
                   /\ AsyncReturn(Ds3502Error_from(ok))
                   /\ UNCHANGED pot
    /\ UNCHANGED <<cfg, wv, calls>>

\* async_write_and_save_wiper resumes from async_write_wiper(value)
AsyncWriteAndSaveResume2 ==
    /\ pc = "ws_await2"
    /\ LET ok == frame[1].failAt # 2
       IN  /\ Complete(ok)
           /\ IF ok
              THEN AsyncAwait("ws_await3",
                              async_set_mode(pot.async[1].config, "WiperOnly"))
              ELSE /\ inflight' = Tail(inflight)
                   /\ AsyncReturn(Ds3502Error_from(ok))
                   /\ UNCHANGED pot
    /\ UNCHANGED <<cfg, wv, calls>>

\* async_write_and_save_wiper resumes from async_set_mode(WiperOnly)
AsyncWriteAndSaveResume3 ==
    /\ pc = "ws_await3"
    /\ LET ok == frame[1].failAt # 3
       IN  /\ Complete(ok)
           /\ inflight' = Tail(inflight)
           /\ AsyncReturn(Ds3502Error_from(ok))
    /\ UNCHANGED <<cfg, pot, wv, calls>>

\* digipot.mode(), on either driver between two of its operations (&self)
ReadMode(k) ==
    /\ pot[k] # <<>>
    /\ k = "async" => pc = "idle"
    /\ ret' = [ret EXCEPT ![k] =
                 <<Returned("mode", <<>>, 0, Len(i2c[k]), Len(i2c[k]), <<>>,
                            mode(Ds3502_new(i2c[k], pot[k][1].config)))>>]
    /\ UNCHANGED <<cfg, pot, i2c, inflight, pc, frame, wv, calls, replayed>>

Next ==
    \/ \E v \in RawInputs : TryFrom(v)
    \/ \E failAt \in 0 .. 1 : BlockingInit(failAt)
    \/ \E failAt \in 0 .. 1 : WriteWiper(failAt)
    \/ \E failAt \in 0 .. 3 : WriteAndSaveWiper(failAt)
    \/ AsyncInit
    \/ AsyncInitResume
    \/ AsyncWriteWiper
    \/ AsyncWriteWiperResume
    \/ AsyncWriteAndSaveWiper
    \/ AsyncWriteAndSaveResume1
    \/ AsyncWriteAndSaveResume2
    \/ AsyncWriteAndSaveResume3

Spec == Init /\ [][Next]_vars

\* Wiper::try_from over every u8, beside drivers that are only initialized.
NextWiper ==
    \/ \E v \in U8 : TryFrom(v)
    \/ \E failAt \in 0 .. 1 : BlockingInit(failAt)
    \/ AsyncInit
    \/ AsyncInitResume

SpecWiper == Init /\ [][NextWiper]_vars

\* Raw u8 values handed to Wiper::try_from in the runs that also call mode().
ModeInputs == {127, 128}

\* The driver runs with calls of mode() between the operations.
NextMode ==
    \/ \E v \in ModeInputs : TryFrom(v)
    \/ \E k \in Kinds : ReadMode(k)
    \/ \E failAt \in 0 .. 1 : BlockingInit(failAt)
    \/ \E failAt \in 0 .. 1 : WriteWiper(failAt)
    \/ \E failAt \in 0 .. 3 : WriteAndSaveWiper(failAt)
    \/ AsyncInit
    \/ AsyncInitResume
    \/ AsyncWriteWiper
    \/ AsyncWriteWiperResume
    \/ AsyncWriteAndSaveWiper
    \/ AsyncWriteAndSaveResume1
    \/ AsyncWriteAndSaveResume2
    \/ AsyncWriteAndSaveResume3

SpecMode == Init /\ [][NextMode]_vars

(***************************************************************************)
(* Properties                                                              *)
(***************************************************************************)

\* Driver k is between two operations.
Boundary(k) == k = "blocking" \/ pc = "idle"

\* Driver k has returned from a call of op.
Ret(k, op) == ret[k] # <<>> /\ ret[k][1].op = op

\* The bus writes recorded during the last call returned by driver k.
Slice(k) == SubSeq(i2c[k], ret[k][1].from + 1, ret[k][1].to)

\* A recorded bus write.
Wr(addr, bytes, ok) == [op |-> "write", addr |-> addr, bytes |-> bytes, ok |-> ok]

\* The address byte of the configuration given at init.
ConfiguredAddr == I2cAddr_as_u8(cfg.i2c_addr)

\* The three writes of write-and-save for position p, the f-th one failing.
SaveSequence(p, f) ==
    << Wr(ConfiguredAddr, <<2, 0>>, f # 1),
       Wr(ConfiguredAddr, <<0, p>>, f # 2),
       Wr(ConfiguredAddr, <<2, 128>>, f # 3) >>

\* C1: a write_and_save_wiper(p) / async_write_and_save_wiper(p) in which no
\* bus write fails issues exactly the three writes [0x02,0x00], [0x00,p],
\* [0x02,0x80] to the configured address, in this order, and returns Ok.
C1_SaveIssuesThreeWrites ==
    \A k \in Kinds :
        (Ret(k, "write_and_save_wiper") /\ ret[k][1].failAt = 0) =>
            /\ ret[k][1].res = "Ok"
            /\ ret[k][1].args[1] \in 0 .. 127
            /\ Slice(k) = SaveSequence(ret[k][1].args[1], 0)

C1_Witness ==
    /\ \A k \in Kinds : Ret(k, "write_and_save_wiper") /\ ret[k][1].failAt = 0
    /\ ret.async[1].args[1] = 127
    /\ cfg.i2c_addr = "Address1"

\* No bus write of driver k has failed so far.
NoFailure(k) == \A i \in 1 .. Len(i2c[k]) : i2c[k][i].ok

\* The control-register writes the device behind driver k has received.
ModeWrites(k) == SelectSeq(i2c[k], LAMBDA t : t.bytes[1] = 2)

\* The persistence mode most recently written to the control register.
LastModeWritten(k) ==
    LET b == ModeWrites(k)[Len(ModeWrites(k))].bytes[2]
    IN  IF b = 128 THEN "WiperOnly" ELSE "WiperAndInitialValue"

\* C2: at every operation boundary of a run in which no bus write has failed,
\* mode() equals the persistence mode most recently written to the control
\* register, for the blocking and for the async driver.
C2_ModeTracksDevice ==
    \A k \in Kinds :
        (Boundary(k) /\ pot[k] # <<>> /\ NoFailure(k)) =>
            mode(pot[k][1]) = LastModeWritten(k)

\* C3: after a successful write_and_save_wiper / async_write_and_save_wiper,
\* mode() returns WiperOnly whatever the initial mode; with the default
\* configuration it is WiperOnly before and after the call.
C3_ModeAfterSave ==
    \A k \in Kinds :
        (Boundary(k) /\ Ret(k, "write_and_save_wiper") /\ ret[k][1].res = "Ok") =>
            /\ mode(pot[k][1]) = "WiperOnly"
            /\ (cfg = Config_default /\ NoFailure(k)) =>
                  ret[k][1].mode0 = <<"WiperOnly">>

\* C4: if the f-th bus write (f = 1, 2, 3) of a write-and-save fails, the call
\* returns I2cError and the transport has seen exactly the first f writes of
\* the sequence from it: nothing later, no retry, no rollback.
C4_SaveStopsAtFailure ==
    \A k \in Kinds :
        (Ret(k, "write_and_save_wiper") /\ ret[k][1].failAt \in 1 .. 3) =>
            LET f == ret[k][1].failAt
            IN  /\ ret[k][1].res = "I2cError"
                /\ ret[k][1].to - ret[k][1].from = f
                /\ Slice(k) = SubSeq(SaveSequence(ret[k][1].args[1], f), 1, f)
                /\ f = 2 => \A i \in 1 .. Len(Slice(k)) : Slice(k)[i].bytes # <<2, 128>>

C4_Witness ==
    /\ \A k \in Kinds : Ret(k, "write_and_save_wiper") /\ ret[k][1].failAt = 2
    /\ Len(i2c.async) = 3
    /\ cfg.mode = "WiperAndInitialValue"

\* The mode byte of the configuration given at init.
ConfiguredModeByte == IF cfg.mode = "WiperOnly" THEN 128 ELSE 0

\* C5: init issues exactly one bus write, [0x02, enc(cfg.mode)] to the
\* configured address, and it is the first transaction of the driver; with
\* the default configuration it is [0x02, 0x80] to 0x28.
C5_InitWritesModeFirst ==
    /\ \A k \in Kinds :
          /\ Ret(k, "init") =>
                /\ ret[k][1].from = 0 /\ ret[k][1].to = 1
                /\ Boundary(k) => Len(i2c[k]) = 1
          /\ i2c[k] # <<>> =>
                /\ i2c[k][1].op = "write"
                /\ i2c[k][1].addr = ConfiguredAddr
                /\ i2c[k][1].bytes = <<2, ConfiguredModeByte>>
                /\ cfg = Config_default =>
                      i2c[k][1].addr = 40 /\ i2c[k][1].bytes = <<2, 128>>
    /\ (i2c.async = <<>> /\ inflight # <<>>) =>
          inflight = <<[op |-> "write", addr |-> ConfiguredAddr,
                        bytes |-> <<2, ConfiguredModeByte>>]>>

C5_Witness ==
    /\ \A k \in Kinds : Ret(k, "init") /\ ret[k][1].res = "Ok"
    /\ cfg = [i2c_addr |-> "Address01", mode |-> "WiperAndInitialValue"]

\* The blocking driver alone satisfies the statements of C2 and C3.
BlockingOnly_C2C3 ==
    /\ (pot.blocking # <<>> /\ NoFailure("blocking")) =>
          mode(pot.blocking[1]) = LastModeWritten("blocking")
    /\ (Ret("blocking", "write_and_save_wiper") /\ ret.blocking[1].res = "Ok") =>
          /\ mode(pot.blocking[1]) = "WiperOnly"
          /\ (cfg = Config_default /\ NoFailure("blocking")) =>
                ret.blocking[1].mode0 = <<"WiperOnly">>

\* p is a prefix of q.
IsPrefix(p, q) == Len(p) <= Len(q) /\ p = SubSeq(q, 1, Len(p))

\* C6: driven with the same configuration, the same calls and transports that
\* fail at the same write positions, the blocking and the async driver produce
\* identical sequences of bus transactions (addresses, payloads, order,
\* length); while the async one is behind, its sequence is a prefix.
C6_SameTransactions ==
    /\ IsPrefix(i2c.async, i2c.blocking)
    /\ (replayed = Len(calls) /\ pc = "idle") => i2c.async = i2c.blocking

C6_Witness ==
    /\ replayed = Len(calls)
    /\ calls = << [op |-> "init", args |-> <<>>, failAt |-> 0],
                  [op |-> "write_wiper", args |-> <<127>>, failAt |-> 0],
                  [op |-> "write_and_save_wiper", args |-> <<0>>, failAt |-> 0] >>
    /\ Len(i2c.async) = 5

\* C7: write_wiper(p) / async_write_wiper(p) issues exactly one bus write,
\* [0x00, p] to the configured address, and returns Ok if it succeeds and
\* I2cError if it fails, without a second attempt.
C7_WriteWiperOneWrite ==
    \A k \in Kinds :
        Ret(k, "write_wiper") =>
            LET p == ret[k][1].args[1]
            IN  /\ p \in 0 .. 127
                /\ Slice(k) = <<Wr(ConfiguredAddr, <<0, p>>, ret[k][1].failAt = 0)>>
                /\ ret[k][1].res = IF Slice(k)[1].ok THEN "Ok" ELSE "I2cError"

C7_Witness ==
    /\ Ret("blocking", "write_wiper") /\ ret.blocking[1].res = "I2cError"
    /\ Ret("async", "write_wiper") /\ ret.async[1].res = "Ok"
    /\ ret.async[1].args = <<127>>

\* The shape of every transaction: a 2-byte write to a register of the device.
WellFormed(t) ==
    /\ t.op = "write"
    /\ t.addr = ConfiguredAddr
    /\ Len(t.bytes) = 2
    /\ t.bytes[1] \in {0, 2}
    /\ t.bytes[1] = 2 => t.bytes[2] \in {0, 128}

\* C8: whatever the operations and the transport failures, every transaction
\* the driver issues is a write of exactly 2 bytes to the address of the
\* Config given at init, which never changes; the first byte is 0x00 or 0x02,
\* and after 0x02 the second is 0x00 or 0x80; no read is issued.
C8_TransactionShape ==
    /\ \A k \in Kinds :
          /\ \A i \in 1 .. Len(i2c[k]) : WellFormed(i2c[k][i])
          /\ pot[k] # <<>> => pot[k][1].config.i2c_addr = cfg.i2c_addr
    /\ \A i \in 1 .. Len(inflight) : WellFormed(inflight[i])

C8_Witness ==
    /\ Len(i2c.blocking) = 7
    /\ Len(i2c.async) = 6 /\ Len(inflight) = 1
    /\ ~ NoFailure("async")
    /\ cfg.i2c_addr = "Address0"

\* C9: Wiper::try_from(v) succeeds exactly when v <= 127, and then inner()
\* is v; for v in 128..255 it returns InvalidWiperValue, never a clamped
\* value; the construction issues no bus transaction.
C9_WiperTryFrom ==
    /\ [](wv # <<>> =>
            LET v == wv[1].raw
                r == wv[1].res
            IN  /\ v \in 0 .. 127 => r.tag = "Ok" /\ Wiper_inner(r.wiper) = v
                /\ v \in 128 .. 255 => r.tag = "Err" /\ r.err = "InvalidWiperValue")
    /\ [][wv' # wv => (i2c' = i2c /\ inflight' = inflight)]_vars

C9_Witness ==
    /\ wv # <<>> /\ wv[1].raw = 200 /\ wv[1].res.tag = "Err"
    /\ Len(i2c.blocking) = 1 /\ Len(i2c.async) = 1

\* C10: if the bus write of init fails, init returns I2cError and no driver
\* is produced, so nothing more is written through it; if it succeeds, the
\* driver returned has mode() equal to the Config's mode.
C10_InitResult ==
    \A k \in Kinds :
        /\ (Ret(k, "init") /\ ret[k][1].failAt = 1) =>
              /\ ret[k][1].res = "I2cError"
              /\ pot[k] = <<>>
        /\ (Ret(k, "init") /\ ret[k][1].failAt = 0 /\ Boundary(k)) =>
              /\ ret[k][1].res = "Ok"
              /\ pot[k] # <<>>
              /\ mode(pot[k][1]) = cfg.mode
              /\ cfg = Config_default => mode(pot[k][1]) = "WiperOnly"
        /\ pot[k] = <<>> =>
              /\ Len(i2c[k]) <= 1
              /\ i2c[k] # <<>> => ~ i2c[k][1].ok

C10_Witness ==
    /\ \A k \in Kinds : Ret(k, "init") /\ ret[k][1].res = "I2cError"
    /\ wv # <<>> /\ wv[1].res.tag = "Ok"

\* C11: write_wiper / async_write_wiper leaves the persistence mode unchanged:
\* mode() is the same after the call as before it, and the call sends no
\* write to the control register, whether its bus write succeeds or fails.
C11_WriteWiperKeepsMode ==
    \A k \in Kinds :
        (Boundary(k) /\ Ret(k, "write_wiper")) =>
            /\ <<mode(pot[k][1])>> = ret[k][1].mode0
            /\ \A i \in 1 .. Len(Slice(k)) : Slice(k)[i].bytes[1] # 2

C11_Witness ==
    /\ Ret("blocking", "write_wiper") /\ ret.blocking[1].res = "I2cError"
    /\ mode(pot.blocking[1]) = "WiperAndInitialValue"
    /\ Boundary("async") /\ Ret("async", "write_wiper") /\ ret.async[1].res = "Ok"

\* The control-register byte that stands for persistence mode m.
EncMode(m) == IF m = "WiperOnly" THEN 128 ELSE 0

\* The bus writes the transport of driver k records during a step.
NewWrites(k) == SubSeq(i2c'[k], Len(i2c[k]) + 1, Len(i2c'[k]))

\* C12: the recorded persistence mode is WiperOnly or WiperAndInitialValue,
\* starts at the Config's mode, and changes only in a step in which the driver
\* issues the mode-set write [0x02, enc(new mode)]; no other step changes it.
C12_ModeChangesOnlyByModeSet ==
    /\ [](\A k \in Kinds : pot[k] # <<>> => mode(pot[k][1]) \in ControlRegisterMode)
    /\ [][\A k \in Kinds :
            /\ (pot[k] = <<>> /\ pot'[k] # <<>>) => mode(pot'[k][1]) = cfg.mode
            /\ (pot[k] # <<>> /\ pot'[k] # <<>> /\ mode(pot'[k][1]) # mode(pot[k][1])) =>
                  \E i \in 1 .. Len(NewWrites(k)) :
                      NewWrites(k)[i].bytes = <<2, EncMode(mode(pot'[k][1]))>>
            /\ pot[k] # <<>> => pot'[k] # <<>>]_vars

C12_Witness ==
    /\ pot.blocking # <<>>
    /\ cfg.mode = "WiperAndInitialValue"
    /\ mode(pot.blocking[1]) = "WiperOnly"
    /\ Ret("blocking", "write_and_save_wiper") /\ ret.blocking[1].failAt = 3

\* The device's control register after the writes of log: a failed write has no
\* effect on it, and before any write it holds the factory Mode 0.
DeviceMode(log) ==
    LET w == SelectSeq(log, LAMBDA t : t.bytes[1] = 2 /\ t.ok)
    IN  IF w = <<>> \/ w[Len(w)].bytes[2] = 0
        THEN "WiperAndInitialValue"
        ELSE "WiperOnly"

\* The recorded mode of driver k differs from its device's mode.
Disagree(k) == pot[k] # <<>> /\ mode(pot[k][1]) # DeviceMode(i2c[k])

\* C13: after a failed write_and_save_wiper the recorded mode can differ from
\* the device's mode: in the blocking driver it does when the first or the
\* third write fails with the device in WiperOnly before the call.  The call
\* has then made no further write, the driver writes only inside a call of its
\* user, and agreement comes back only in a step that issues a mode-set write.
C13_FailedSaveLeavesDisagreement ==
    /\ []((/\ Ret("blocking", "write_and_save_wiper")
           /\ ret.blocking[1].failAt \in {1, 3}
           /\ DeviceMode(SubSeq(i2c.blocking, 1, ret.blocking[1].from)) = "WiperOnly") =>
               /\ ret.blocking[1].res = "I2cError"
               /\ Disagree("blocking")
               /\ Len(i2c.blocking) = ret.blocking[1].from + ret.blocking[1].failAt)
    /\ [][/\ i2c'.blocking # i2c.blocking => Len(calls') = Len(calls) + 1
          /\ i2c'.async # i2c.async => pc # "idle"
          /\ \A k \in Kinds :
               (Disagree(k) /\ ~ Disagree(k)') =>
                   \E i \in 1 .. Len(NewWrites(k)) : NewWrites(k)[i].bytes[1] = 2]_vars

C13_Witness ==
    /\ Ret("blocking", "write_and_save_wiper") /\ ret.blocking[1].failAt = 1
    /\ cfg.mode = "WiperOnly"
    /\ mode(pot.blocking[1]) = "WiperAndInitialValue"
    /\ DeviceMode(i2c.blocking) = "WiperOnly"

\* The async driver instance: the one init returned, or init's local `pot`.
AsyncSelf ==
    IF pot.async # <<>> THEN pot.async
    ELSE IF frame # <<>> THEN frame[1].local
    ELSE <<>>

\* The last n writes recorded by the async transport all succeeded.
LastOk(n) ==
    \A i \in (Len(i2c.async) - n + 1) .. Len(i2c.async) : i2c.async[i].ok

\* C14: in the async driver each bus write is one suspension point and the
\* writes of an operation are sequential: at most one transaction is in
\* flight, the next write of async_write_and_save_wiper is issued only after
\* the previous one completed successfully, and the driver's address and
\* recorded mode do not change while a write is in flight.
C14_AsyncWritesSequential ==
    /\ [](/\ Len(inflight) <= 1
          /\ inflight # <<>> <=> pc # "idle"
          /\ pc \in {"init_await", "ww_await", "ws_await1"} =>
                Len(i2c.async) = frame[1].from
          /\ pc = "ws_await2" =>
                /\ Len(i2c.async) = frame[1].from + 1 /\ LastOk(1)
                /\ inflight[1].bytes[1] = 0
          /\ pc = "ws_await3" =>
                /\ Len(i2c.async) = frame[1].from + 2 /\ LastOk(2)
                /\ inflight[1].bytes = <<2, 128>>)
    /\ [][/\ inflight # <<>> =>
                \/ AsyncSelf' = AsyncSelf
                \/ pc = "init_await" /\ AsyncSelf' = <<>>
          /\ i2c'.async # i2c.async =>
                /\ Len(i2c'.async) = Len(i2c.async) + 1
                /\ inflight # <<>>
                /\ Txn(i2c'.async[Len(i2c'.async)].addr,
                       i2c'.async[Len(i2c'.async)].bytes) = inflight[1]]_vars

C14_Witness ==
    /\ pc = "ws_await3"
    /\ Len(inflight) = 1
    /\ AsyncSelf[1].config.mode = "WiperAndInitialValue"
    /\ Len(i2c.async) = 6

\* C15: mode() performs no bus access and changes no driver state: however
\* often it is called between operations, it adds nothing to the sequence of
\* bus transactions, leaves the recorded mode and the address unchanged, and
\* returns the recorded mode.
C15_ModeIsPureRead ==
    [][\A k \in Kinds :
          (ret'[k] # ret[k] /\ ret'[k][1].op = "mode") =>
              /\ i2c' = i2c
              /\ inflight' = inflight
              /\ pot' = pot
              /\ ret'[k][1].res = pot[k][1].config.mode
              /\ ret'[k][1].to = ret'[k][1].from]_vars

C15_Witness ==
    /\ Ret("blocking", "mode") /\ ret.blocking[1].res = "WiperAndInitialValue"
    /\ Ret("async", "mode") /\ ret.async[1].res = "WiperOnly"
    /\ Len(i2c.blocking) = 3
    /\ Len(i2c.async) = 3

\* A write to the wiper register carries a position of at most 127.
WiperInRange(t) == t.bytes[1] = 0 => t.bytes[2] \in 0 .. 127

\* C16: every write to the wiper register (first byte 0x00) carries a second
\* byte in 0..127: a Wiper comes only from the validating constructor, so no
\* sequence of driver operations puts a position above 127 on the bus.
C16_WiperWritesInRange ==
    /\ \A k \in Kinds : \A i \in 1 .. Len(i2c[k]) : WiperInRange(i2c[k][i])
    /\ \A i \in 1 .. Len(inflight) : WiperInRange(inflight[i])
    /\ \A i \in 1 .. Len(calls) :
          \A j \in 1 .. Len(calls[i].args) : calls[i].args[j] \in 0 .. 127

C16_Witness ==
    /\ wv # <<>> /\ wv[1].raw = 255 /\ wv[1].res.tag = "Err"
    /\ \E i \in 1 .. Len(i2c.blocking) : i2c.blocking[i].bytes = <<0, 127>>
    /\ inflight = <<Txn(ConfiguredAddr, <<0, 127>>)>>
    /\ Len(calls) = 1 + MaxCalls

====
